---- MODULE Spec2Model ----
(***************************************************************************)
(* A model of mod-interval (src/src/lib.rs): the rate unit PerX, the       *)
(* LinearSegment rate function, the ModInterval plan (new, append_segment, *)
(* into_stream) and the closure that into_stream hands to stream::unfold.  *)
(*                                                                         *)
(* f64 values are modelled as extended rationals: a finite value n/d in    *)
(* lowest terms, +inf, -inf or NaN, with the IEEE-754 rules for the        *)
(* special values (x/0, inf*0, inf/inf, inf-inf, comparisons with NaN).    *)
(* Rounding of finite values is not modelled.  Duration and Instant are    *)
(* integer counts of clock ticks, TicksPerSec ticks to the second.         *)
(***************************************************************************)
EXTENDS Integers, Sequences, FiniteSets, TLC

VARIABLES
    segments,   \* ModInterval.segments: the queue of LinearSegment (lib.rs:51)
    duration,   \* ModInterval.duration: the running total, in ticks (lib.rs:52)
    state,      \* the closure's captured `state: Option<ModIntervalStreamState>` (lib.rs:86)
    clock,      \* the reading time::now() returns (lib.rs:134, lib.rs:152)
    pc,         \* "plan": the builder is alive; "stream": into_stream was called;
                \* "panicked": the closure unwound out of a panic
    last,       \* what the most recent pull did (kind, now, x, rate, wait, timestamp)
    appended,   \* history: the arguments of every append_segment call, in call order
    activated,  \* history: every segment that became state.segment, in order
    emitted,    \* history: every timestamp the stream yielded, in order
    pulls,      \* history: number of closure calls made
    perx        \* the PerX constructor call made last: its argument, the build
                \* it ran in, the value it stored and whether it panicked

vars == <<segments, duration, state, clock, pc, last, appended, activated, emitted,
          pulls, perx>>

----------------------------------------------------------------------------
(* Bounds of the model *)

MaxSegs == 2        \* append_segment calls per plan
MaxClock == 3       \* the clock advances between pulls while it reads less than MaxClock ticks
MaxJitter == 1      \* a sleep returns up to MaxJitter ticks late
MaxPulls == 3       \* closure calls per stream
TicksPerSec == 2    \* resolution of Duration and Instant: ticks to the second
WordBits == 10      \* u64 is modelled WordBits bits wide

\* durations, in seconds, that append_segment is called with
DurSecs == {0, 5, 10}

----------------------------------------------------------------------------
(* f64 *)

Abs(i) == IF i < 0 THEN -i ELSE i

Sign(i) == IF i < 0 THEN -1 ELSE IF i > 0 THEN 1 ELSE 0

RECURSIVE Gcd(_, _)
Gcd(a, b) == IF b = 0 THEN a ELSE Gcd(b, a % b)

NaN == [k |-> "nan", n |-> 0, d |-> 0]

Inf(s) == [k |-> "inf", n |-> s, d |-> 0]

\* the finite value n/d (d # 0), in lowest terms with a positive denominator
Fin(n, d) ==
    LET g == Gcd(Abs(n), Abs(d))
        s == IF d < 0 THEN -1 ELSE 1
    IN  [k |-> "fin", n |-> (s * n) \div g, d |-> (s * d) \div g]

FInt(i) == Fin(i, 1)

IsFinite(a) == a.k = "fin"

\* -1, 0 or 1; not meaningful for NaN
FSign(a) == Sign(a.n)

\* a == b of f64: false whenever either side is NaN
FEq(a, b) == a.k # "nan" /\ b.k # "nan" /\ a = b

FNeg(a) == IF a.k = "nan" THEN NaN ELSE [a EXCEPT !.n = -a.n]

FAdd(a, b) ==
    IF a.k = "nan" \/ b.k = "nan" THEN NaN
    ELSE IF a.k = "inf" /\ b.k = "inf" THEN (IF a.n = b.n THEN a ELSE NaN)
    ELSE IF a.k = "inf" THEN a
    ELSE IF b.k = "inf" THEN b
    ELSE Fin(a.n * b.d + b.n * a.d, a.d * b.d)

FSub(a, b) == FAdd(a, FNeg(b))

FMul(a, b) ==
    IF a.k = "nan" \/ b.k = "nan" THEN NaN
    ELSE IF a.k = "inf" \/ b.k = "inf"
         THEN (IF FSign(a) * FSign(b) = 0 THEN NaN ELSE Inf(FSign(a) * FSign(b)))
    ELSE Fin(a.n * b.n, a.d * b.d)

\* zeros are +0.0: every value the program divides by is a difference x - x or
\* a non-negative quantity
FDiv(a, b) ==
    IF a.k = "nan" \/ b.k = "nan" THEN NaN
    ELSE IF a.k = "inf" /\ b.k = "inf" THEN NaN
    ELSE IF a.k = "inf" THEN (IF FSign(b) < 0 THEN Inf(-a.n) ELSE a)
    ELSE IF b.k = "inf" THEN FInt(0)
    ELSE IF b.n = 0 THEN (IF a.n = 0 THEN NaN ELSE Inf(FSign(a)))
    ELSE Fin(a.n * b.d, a.d * b.n)

RECURSIVE ISqrtFrom(_, _)
ISqrtFrom(i, r) == IF (r + 1) * (r + 1) > i THEN r ELSE ISqrtFrom(i, r + 1)

\* f64::sqrt: NaN for NaN and for negatives, +inf for +inf; a finite n/d is
\* sqrt(n*d)/d, exact when n*d is a perfect square and rounded down otherwise
FSqrt(a) ==
    IF a.k = "nan" THEN NaN
    ELSE IF FSign(a) < 0 THEN NaN
    ELSE IF a.k = "inf" THEN a
    ELSE Fin(ISqrtFrom(a.n * a.d, 0), a.d)

----------------------------------------------------------------------------
(* Duration *)

\* Duration::as_secs_f64
as_secs_f64(d) == Fin(d, TicksPerSec)

\* Duration::from_secs_f64 panics on a value that is negative or not finite
\* (an overflow of Duration needs more than 2^64 seconds and is out of reach)
from_secs_f64_panics(f) == ~IsFinite(f) \/ FSign(f) < 0

\* Duration::from_secs_f64 of a finite non-negative value: truncated to a
\* whole number of ticks
from_secs_f64(f) == (f.n * TicksPerSec) \div f.d

----------------------------------------------------------------------------
(* PerX: stored as per minute *)

\* the number of values of u64, at the width of the model
U64Modulus == 2 ^ WordBits

U64 == 0..(U64Modulus - 1)

minute(min) == min

\* `sec * 60` overflows u64: a panic in a build with overflow checks (debug),
\* a wrapped product in a build without them (release)
second_overflows(sec) == sec * 60 >= U64Modulus

second(sec) == (sec * 60) % U64Modulus

as_per_second(p) == FDiv(FInt(p), FInt(60))

\* Duration::MAX: u64::MAX seconds and the largest fraction of a second
DurationMAX == U64Modulus * TicksPerSec - 1

\* `+` of two Durations panics when the sum does not fit ("overflow when
\* adding durations")
duration_add_overflows(a, b) == a + b > DurationMAX

----------------------------------------------------------------------------
(* LinearSegment *)

None == [some |-> FALSE, v |-> NaN]

Some(y) == [some |-> TRUE, v |-> y]

get_y(self, x) ==
    IF FEq(x, FInt(0)) /\ self.zero_x.some
    THEN self.zero_x.v
    ELSE FAdd(FMul(self.m, x), self.b)

----------------------------------------------------------------------------
(* ModInterval *)

\* the `1000.0` of the zero_x formula and of the rate-to-wait conversion
Thousand == 1000

\* mutant: `&&` in place of `||` in the condition that stores zero_x
NewSegment_BothZero(start, dur, end) ==
    LET x1 == as_per_second(start)
        x2 == as_per_second(end)
        y2 == as_secs_f64(dur)
        m  == FDiv(y2, FSub(x2, x2))
        zero_x == IF FEq(x1, FInt(0)) /\ FEq(x2, FInt(0))
                  THEN Some(FDiv(FInt(Thousand),
                                 FDiv(FSqrt(FMul(FInt(8), m)), FMul(FInt(2), m))))
                  ELSE None
    IN  [m |-> m, b |-> x1, zero_x |-> zero_x, duration |-> dur]

\* the LinearSegment that append_segment(start, duration, end) builds
NewSegment(start, dur, end) ==
    LET x1 == as_per_second(start)
        x2 == as_per_second(end)
        y2 == as_secs_f64(dur)
        m  == FDiv(y2, FSub(x2, x2))
        b  == x1
        zero_x == IF FEq(x1, FInt(0)) \/ FEq(x2, FInt(0))
                  THEN Some(FDiv(FInt(Thousand),
                                 FDiv(FSqrt(FMul(FInt(8), m)), FMul(FInt(2), m))))
                  ELSE None
    IN  [m |-> m, b |-> b, zero_x |-> zero_x, duration |-> dur]

\* ModInterval::new
new == [segments |-> <<>>, duration |-> 0]

\* mutant: `self.duration = duration` in place of `self.duration += duration`
append_segment_Overwrites(self, start, dur, end) ==
    [segments |-> Append(self.segments, NewSegment(start, dur, end)),
     duration |-> dur]

\* ModInterval::append_segment: the plan after the call
append_segment(self, start, dur, end) ==
    [segments |-> Append(self.segments, NewSegment(start, dur, end)),
     duration |-> self.duration + dur]

----------------------------------------------------------------------------
(* The closure of into_stream *)

\* `let mut state = None`; the fields of an absent state are placeholders
NoState == [some |-> FALSE, start_time |-> 0, segment |-> NewSegment(0, 0, 0),
            x_offset |-> 0]

\* mutant: pop_back in place of pop_front
pop_back(q) == [item |-> q[Len(q)], rest |-> SubSeq(q, 1, Len(q) - 1)]

\* VecDeque::pop_front on a non-empty queue: the item and what is left
pop_front(q) == [item |-> Head(q), rest |-> Tail(q)]

\* mutant: an empty queue yields a default segment (`unwrap_or_default`) in
\* place of the early return
Activate_DefaultOnEmpty(segs, st, now) ==
    IF st.some
    THEN [ret |-> FALSE, segments |-> segs, state |-> st, act |-> <<>>]
    ELSE LET item == IF segs = <<>> THEN NewSegment(0, 0, 0) ELSE Head(segs)
             rest == IF segs = <<>> THEN segs ELSE Tail(segs)
         IN  [ret |-> FALSE, segments |-> rest,
              state |-> [some |-> TRUE, start_time |-> now, segment |-> item,
                         x_offset |-> 0],
              act |-> IF segs = <<>> THEN <<>> ELSE <<item>>]

\* mutant: `state` is set before the queue is looked at, so the early return
\* leaves a state behind
Activate_StateBeforePop(segs, st, now) ==
    IF st.some
    THEN [ret |-> FALSE, segments |-> segs, state |-> st, act |-> <<>>]
    ELSE IF segs = <<>>
    THEN [ret |-> TRUE, segments |-> segs,
          state |-> [some |-> TRUE, start_time |-> now,
                     segment |-> NewSegment(0, 0, 0), x_offset |-> 0],
          act |-> <<>>]
    ELSE [ret |-> FALSE, segments |-> Tail(segs),
          state |-> [some |-> TRUE, start_time |-> now, segment |-> Head(segs),
                     x_offset |-> 0],
          act |-> <<Head(segs)>>]

\* mutant: the start instant is the default instant, not the `now` of the pull
Activate_StaleStart(segs, st, now) ==
    IF st.some
    THEN [ret |-> FALSE, segments |-> segs, state |-> st, act |-> <<>>]
    ELSE IF segs = <<>>
    THEN [ret |-> TRUE, segments |-> segs, state |-> st, act |-> <<>>]
    ELSE [ret |-> FALSE, segments |-> Tail(segs),
          state |-> [some |-> TRUE, start_time |-> 0, segment |-> Head(segs),
                     x_offset |-> 0],
          act |-> <<Head(segs)>>]

\* `if state.is_none() { .. }`: ret is TRUE when the closure returns None here
Activate(segs, st, now) ==
    IF st.some
    THEN [ret |-> FALSE, segments |-> segs, state |-> st, act |-> <<>>]
    ELSE IF segs = <<>>
    THEN [ret |-> TRUE, segments |-> segs, state |-> st, act |-> <<>>]
    ELSE LET p == pop_front(segs)
         IN  [ret |-> FALSE, segments |-> p.rest,
              state |-> [some |-> TRUE, start_time |-> now, segment |-> p.item,
                         x_offset |-> 0],
              act |-> <<p.item>>]

\* `let mut x = ..; if x > state.segment.duration { .. }`: ret is TRUE when the
\* closure returns None here; x is the elapsed time the rate is evaluated at
Advance(segs, st, x) ==
    IF x > st.segment.duration
    THEN IF segs = <<>>
         THEN [ret |-> TRUE, segments |-> segs, state |-> st, x |-> x, act |-> <<>>]
         ELSE LET p == pop_front(segs)
              IN  [ret |-> FALSE, segments |-> p.rest,
                   state |-> [st EXCEPT !.x_offset = st.x_offset + st.segment.duration,
                                        !.segment = p.item],
                   x |-> x - st.segment.duration,
                   act |-> <<p.item>>]
    ELSE [ret |-> FALSE, segments |-> segs, state |-> st, x |-> x, act |-> <<>>]

\* `1000.0 / target_hits_per_second`, the argument of Duration::from_secs_f64
WaitSecs(rate) == FDiv(FInt(Thousand), rate)

\* what one call of the closure does with the queue `segs`, the captured state
\* `st` and the clock reading `now`.  kind is "end" (the closure returns
\* ready(None)), "item" (it returns the future that sleeps `wait` and yields
\* `item`) or "panic" (a Duration subtraction or from_secs_f64 panics)
Closure(segs, st, now) ==
    LET a  == Activate(segs, st, now)
        x0 == now - a.state.start_time - a.state.x_offset
        v  == Advance(a.segments, a.state, x0)
        rate == get_y(v.state.segment, as_secs_f64(v.x))
        secs == WaitSecs(rate)
        y  == from_secs_f64(secs)
        out(kind, q, s, x, r, w, act) ==
            [kind |-> kind, segments |-> q, state |-> s, act |-> act,
             report |-> [kind |-> kind, now |-> now, x |-> x, rate |-> r,
                         wait |-> w, item |-> now + w]]
    IN  IF a.ret THEN out("end", a.segments, a.state, 0, NaN, 0, a.act)
        ELSE IF x0 < 0 THEN out("panic", a.segments, a.state, 0, NaN, 0, a.act)
        ELSE IF v.ret THEN out("end", v.segments, v.state, v.x, NaN, 0, a.act \o v.act)
        ELSE IF from_secs_f64_panics(secs)
             THEN out("panic", v.segments, v.state, v.x, rate, 0, a.act \o v.act)
        ELSE out("item", v.segments, v.state, v.x, rate, y, a.act \o v.act)

----------------------------------------------------------------------------
(* The state machine *)

\* the rates append_segment is called with: PerX::minute and PerX::second
RateInputs == {minute(0), minute(30), minute(60), second(1)}

\* the durations append_segment is called with, in ticks (Duration::from_secs)
DurInputs == {s * TicksPerSec : s \in DurSecs} \cup {DurationMAX}

\* `perx` before the first constructor call
NoPerX == [ctor |-> "none", arg |-> 0, build |-> "release", v |-> 0, panicked |-> FALSE]

\* `last` before the first pull
NoPull == [kind |-> "none", now |-> 0, x |-> 0, rate |-> NaN, wait |-> 0, item |-> 0]

Init ==
    /\ segments = new.segments
    /\ duration = new.duration
    /\ state = NoState
    /\ clock = 0
    /\ pc = "plan"
    /\ last = NoPull
    /\ appended = <<>>
    /\ activated = <<>>
    /\ emitted = <<>>
    /\ pulls = 0
    /\ perx = NoPerX

\* a call of append_segment; `self.duration += duration` panics, before the
\* segment is pushed, when the total overflows Duration
AppendSegment(start, dur, end) ==
    /\ pc = "plan"
    /\ Len(appended) < MaxSegs
    /\ IF duration_add_overflows(duration, dur)
       THEN /\ pc' = "panicked"
            /\ UNCHANGED <<segments, duration, appended>>
       ELSE /\ LET plan == append_segment([segments |-> segments, duration |-> duration],
                                          start, dur, end)
               IN  /\ segments' = plan.segments
                   /\ duration' = plan.duration
            /\ appended' = Append(appended,
                                  [start |-> start, duration |-> dur, end |-> end])
            /\ pc' = pc
    /\ UNCHANGED <<state, clock, last, activated, emitted, pulls, perx>>

\* into_stream: the plan is moved into the closure, whose state starts as None
IntoStream ==
    /\ pc = "plan"
    /\ pc' = "stream"
    /\ state' = NoState
    /\ UNCHANGED <<segments, duration, clock, last, appended, activated, emitted, pulls,
                   perx>>

\* one pull: the closure is called and the future it returns is awaited.  The
\* sleep returns when at least `wait` has passed on the clock
Pull ==
    /\ pc = "stream"
    /\ pulls < MaxPulls
    /\ \E late \in 0..MaxJitter :
          LET r == Closure(segments, state, clock)
          IN  /\ segments' = r.segments
              /\ state' = r.state
              /\ last' = r.report
              /\ pc' = IF r.kind = "panic" THEN "panicked" ELSE "stream"
              /\ clock' = IF r.kind = "item" THEN clock + r.report.wait + late ELSE clock
              /\ emitted' = IF r.kind = "item" THEN Append(emitted, r.report.item)
                                               ELSE emitted
              /\ activated' = activated \o r.act
    /\ pulls' = pulls + 1
    /\ UNCHANGED <<duration, appended, perx>>

\* time passes between two pulls
ClockAdvance ==
    /\ pc = "stream"
    /\ clock < MaxClock
    /\ clock' = clock + 1
    /\ UNCHANGED <<segments, duration, state, pc, last, appended, activated, emitted,
                   pulls, perx>>

Next ==
    \/ \E start \in RateInputs, dur \in DurInputs, end \in RateInputs :
          AppendSegment(start, dur, end)
    \/ IntoStream
    \/ Pull
    \/ ClockAdvance

Spec == Init /\ [][Next]_vars

\* the consumer keeps pulling while the closure can be called
FairSpec == Spec /\ WF_vars(Pull)

----------------------------------------------------------------------------
(* Rate construction on its own: one constructor call, on any u64 *)

Builds == {"debug", "release"}

\* PerX::minute(n)
Minute(n, build) ==
    /\ perx.ctor = "none"
    /\ perx' = [ctor |-> "minute", arg |-> n, build |-> build, v |-> minute(n),
                panicked |-> FALSE]
    /\ UNCHANGED <<segments, duration, state, clock, pc, last, appended, activated,
                   emitted, pulls>>

\* PerX::second(n)
Second(n, build) ==
    /\ perx.ctor = "none"
    /\ LET panics == build = "debug" /\ second_overflows(n)
       IN  perx' = [ctor |-> "second", arg |-> n, build |-> build,
                    v |-> IF panics THEN 0 ELSE second(n), panicked |-> panics]
    /\ UNCHANGED <<segments, duration, state, clock, pc, last, appended, activated,
                   emitted, pulls>>

RateNext ==
    \/ \E n \in U64, build \in Builds : Minute(n, build)
    \/ \E n \in U64, build \in Builds : Second(n, build)

RateSpec == Init /\ [][RateNext]_vars

----------------------------------------------------------------------------
(* Helpers of the properties *)

RECURSIVE SumDurations(_)
SumDurations(q) == IF q = <<>> THEN 0 ELSE Head(q).duration + SumDurations(Tail(q))

\* the segments append_segment built, in call order
Built == [i \in 1..Len(appended) |->
            NewSegment(appended[i].start, appended[i].duration, appended[i].end)]

\* every rate positive (and finite), every duration positive
ValidPlan ==
    \A i \in 1..Len(appended) :
        appended[i].start > 0 /\ appended[i].end > 0 /\ appended[i].duration > 0

Seconds(n) == n * TicksPerSec

----------------------------------------------------------------------------
(* C1 *)

\* C1: for every appended segment with positive start rate r0, positive end
\* rate r1 and positive duration D, the rate function is affine on [0, D]:
\* rate(t) = m*t + b with b = r0 and m = (r1 - r0) / D, so rate(0) = r0 and
\* rate(D) = r1.
C1_RateIsLinear ==
    pc = "plan" =>
        \A i \in 1..Len(segments) :
            LET a  == appended[i]
                r0 == as_per_second(a.start)
                r1 == as_per_second(a.end)
                m  == FDiv(FSub(r1, r0), as_secs_f64(a.duration))
            IN  (a.start > 0 /\ a.end > 0 /\ a.duration > 0) =>
                    \A t \in 0..a.duration :
                        FEq(get_y(segments[i], as_secs_f64(t)),
                            FAdd(FMul(m, as_secs_f64(t)), r0))

----------------------------------------------------------------------------
(* C3 *)

\* C3: a plan with no segments can be converted, and every pull on its
\* generator, the first included, signals end-of-sequence: nothing is emitted,
\* no wait is requested, the clock is left alone and no segment is activated.
C3_EmptyPlanEndsAtOnce ==
    [][(pc = "stream" /\ appended = <<>> /\ pulls' = pulls + 1) =>
          /\ last'.kind = "end"
          /\ last'.wait = 0
          /\ clock' = clock
          /\ emitted' = <<>>
          /\ activated' = <<>>
          /\ ~state'.some]_vars

C3_Witness ==
    pc = "stream" /\ appended = <<>> /\ pulls = 1 /\ last.kind = "end"

----------------------------------------------------------------------------
(* C4 *)

\* C4: with a single constant-rate segment (start = end = R > 0) every
\* emitting pull waits 1/R seconds; with start = end = 60 per minute and a
\* duration of 10 seconds each of the first five pulls emits a timestamp after
\* a wait of 1 second, the timestamps 1 second apart.
C4_ConstantRateSpacing ==
    (pc # "plan" /\ Len(appended) = 1 /\ pulls >= 1
       /\ appended[1].start = appended[1].end /\ appended[1].start > 0
       /\ appended[1].duration > 0) =>
        /\ last.kind = "item" =>
              FEq(as_secs_f64(last.wait), FDiv(FInt(1), as_per_second(appended[1].start)))
        /\ (appended[1].start = minute(60) /\ appended[1].duration = Seconds(10)
              /\ pulls <= 5) =>
              /\ last.kind = "item"
              /\ last.wait = Seconds(1)
              /\ Len(emitted) = pulls
              /\ \A k \in 1..(Len(emitted) - 1) : emitted[k + 1] - emitted[k] >= Seconds(1)

----------------------------------------------------------------------------
(* C6 *)

\* C6: a generator of a plan whose segments all have positive rates and a
\* positive duration, pulled again and again, eventually signals
\* end-of-stream.
C6_Terminates ==
    [](pc = "stream" /\ ValidPlan => <>(last.kind = "end"))

----------------------------------------------------------------------------
(* C7 *)

\* C7: once a pull has signalled end-of-stream, every later pull signals
\* end-of-stream too, at whatever clock reading, and nothing more is emitted.
C7_ExhaustionIsTerminal ==
    [][last.kind = "end" => (last'.kind = "end" /\ emitted' = emitted)]_vars

C7_Witness ==
    pulls >= 2 /\ last.kind = "end" /\ last.now > 0 /\ clock > last.now

----------------------------------------------------------------------------
(* C8 *)

\* C8: while the plan is being built its total duration is the sum of the
\* durations of the queued segments (zero for a fresh plan), and the queue
\* holds, in call order, exactly one segment per append_segment call, each
\* with the duration it was appended with.
C8_TotalIsSumOfDurations ==
    pc = "plan" =>
        /\ duration = SumDurations(segments)
        /\ segments = Built
        /\ \A i \in 1..Len(segments) : segments[i].duration = appended[i].duration

C8_Witness ==
    /\ pc = "plan"
    /\ Len(segments) = 2
    /\ segments[1].duration = Seconds(5)
    /\ segments[2].duration = Seconds(10)
    /\ duration = Seconds(15)

----------------------------------------------------------------------------
(* C9 *)

\* C9: segments become active in append order: the segments activated so far
\* followed by those still queued are the appended segments in call order, so
\* the k-th activated is the k-th appended and none is activated twice.
C9_PlaybackInAppendOrder ==
    pc # "plan" => activated \o segments = Built

C9_Witness ==
    /\ Len(appended) = 2
    /\ Built[1] # Built[2]
    /\ Len(activated) = 1
    /\ activated[1] = Built[1]
    /\ state.some /\ state.segment = Built[1]

----------------------------------------------------------------------------
(* C11 *)

\* C11: constructing a rate has no error condition and does not depend on
\* the unit: for every u64 n, PerX::second(n) stores the per-minute value
\* that PerX::minute(60 * n) stands for and is n events per second, and
\* PerX::minute(k) is k/60 events per second.
C11_UnitIndependent ==
    /\ ~perx.panicked
    /\ perx.ctor = "second" =>
          /\ perx.v = 60 * perx.arg
          /\ FEq(as_per_second(perx.v), FInt(perx.arg))
    /\ perx.ctor = "minute" =>
          FEq(as_per_second(perx.v), FDiv(FInt(perx.arg), FInt(60)))

----------------------------------------------------------------------------
(* C12 *)

\* C12: append_segment never fails and validates nothing: whatever the
\* rates (zero included) and the duration (zero included), the call
\* completes, pushes exactly one segment at the back and adds the duration to
\* the total.
C12_AppendNeverFails ==
    [][(pc = "plan" /\ pc' # "stream") =>
          /\ pc' = "plan"
          /\ Len(appended') = Len(appended) + 1
          /\ LET call == appended'[Len(appended')]
             IN  /\ segments' = Append(segments,
                                       NewSegment(call.start, call.duration, call.end))
                 /\ duration' = duration + call.duration]_vars

----------------------------------------------------------------------------
(* C14 *)

\* C14: no premature end: a pull signals end-of-stream only when the queue
\* is empty and either no segment was ever activated or the elapsed time x
\* exceeds the active segment's duration; while the queue is non-empty, or
\* while x <= the active segment's duration, a pull emits a timestamp (stated
\* here for plans with positive rates and durations).
C14_NoPrematureEnd ==
    [][pulls' = pulls + 1 =>
          LET x == clock - state.start_time - state.x_offset
              spent == state.some /\ x > state.segment.duration
          IN  /\ last'.kind = "end" =>
                    (segments = <<>> /\ (activated = <<>> \/ spent))
              /\ (ValidPlan /\ (segments # <<>> \/ (state.some /\ ~spent))) =>
                    last'.kind = "item"]_vars

----------------------------------------------------------------------------
(* C15 *)

\* C15: a segment stores the substitute zero_x if and only if its start rate
\* or its end rate is zero; its rate function returns the substitute exactly
\* at t = 0 of such a segment and m*t + b everywhere else, t = duration with
\* an end rate of zero and t = 0 with both rates non-zero included.
C15_ZeroRateSpecialCase ==
    pc = "plan" =>
        \A i \in 1..Len(segments) :
            LET a    == appended[i]
                seg  == segments[i]
                zero == a.start = 0 \/ a.end = 0
            IN  /\ seg.zero_x.some = zero
                /\ \A t \in (0..TicksPerSec) \cup {a.duration} :
                      get_y(seg, as_secs_f64(t)) =
                          IF t = 0 /\ zero
                          THEN seg.zero_x.v
                          ELSE FAdd(FMul(seg.m, as_secs_f64(t)), seg.b)

C15_Witness ==
    /\ pc = "plan"
    /\ Len(segments) = 2
    /\ appended[1].start > 0 /\ appended[1].end = 0 /\ appended[1].duration > 0
    /\ segments[1].zero_x.some
    /\ appended[2].start > 0 /\ appended[2].end > 0
    /\ ~segments[2].zero_x.some

----------------------------------------------------------------------------
(* C16 *)

\* C16: the first pull of a generator built from a non-empty plan pops the
\* head segment and makes it active with the pull's clock reading as start
\* instant and a carried offset of zero, so the rate is first evaluated at
\* x = 0; no later step changes the start instant.
C16_FirstPullActivatesHead ==
    [][/\ (pc = "stream" /\ pulls = 0 /\ segments # <<>> /\ pulls' = 1) =>
            /\ state'.some
            /\ state'.segment = Head(segments)
            /\ segments' = Tail(segments)
            /\ activated' = <<Head(segments)>>
            /\ state'.start_time = clock
            /\ state'.x_offset = 0
            /\ last'.now = clock
            /\ last'.x = 0
       /\ state.some => (state'.some /\ state'.start_time = state.start_time)]_vars

C16_Witness ==
    /\ pulls = 1
    /\ Len(appended) = 2
    /\ Len(segments) = 1
    /\ state.some
    /\ state.start_time > 0
    /\ state.start_time = last.now
    /\ state.x_offset = 0
    /\ last.x = 0

----------------------------------------------------------------------------
(* C20 *)

\* C20: a pull that signals end-of-stream changes nothing: the queue, the
\* active segment, the start instant and the carried offset are as before,
\* no wait is requested, the clock is left alone and nothing is emitted.
C20_EndChangesNothing ==
    [][(pulls' = pulls + 1 /\ last'.kind = "end") =>
          /\ segments' = segments
          /\ state' = state
          /\ activated' = activated
          /\ emitted' = emitted
          /\ last'.wait = 0
          /\ clock' = clock]_vars

C20_Witness ==
    /\ pulls = 1
    /\ last.kind = "end"
    /\ last.now > 0
    /\ clock = last.now
    /\ state = NoState
    /\ segments = <<>>

====
